---- MODULE Spec2Model ----
(***************************************************************************)
(* Model of the smart tool routing controller of mcphub:                   *)
(*   src/src/controllers/toolController.ts  (searchTools, callTool)        *)
(* together with the collaborators it calls (smart-routing configuration,  *)
(* similarity index, dispatcher).                                          *)
(*                                                                         *)
(* Conventions.  A JavaScript value is a record [t, n, s]: t is the result *)
(* of typeof (with "null" kept apart from "object"), n the value of a      *)
(* number in hundredths (0.65 is 65, 10 is 1000), s the characters of a    *)
(* string as a sequence of one-character strings.  Similarities and        *)
(* thresholds are likewise in hundredths.                                  *)
(***************************************************************************)
EXTENDS Integers, Sequences, FiniteSets

VARIABLES
    smartRoutingEnabled,  \* getSmartRoutingConfig().enabled
    pc,                   \* where the handler of the current request stands
    req,                  \* the current request: handler, params, headers, body
    configCalls,          \* calls of getSmartRoutingConfig for this request
    indexCalls,           \* the arguments of each searchToolsByVector call
    dispatchCalls,        \* the arguments of each handleCallToolRequest call
    outcome,              \* how the awaited collaborator call settled
    res,                  \* the responses sent for this request
    earlier,              \* another request of this process: an earlier one as it
                          \* ended, or one in flight while the handler of req runs
    lookup,               \* a call of getServersFromSearchResponse: arguments, result
    service,              \* a call of the frontend searchTools: position, fetch, result
    page,                 \* ServersPage: its search state and its requests in flight
    card                  \* ServerCard: isToggling and its onToggle calls in flight

\* the state of the frontend
frontend == <<lookup, service, page, card>>

(***************************************************************************)
(* JavaScript values                                                       *)
(***************************************************************************)
Undefined == [t |-> "undefined", n |-> 0, s |-> <<>>]
Null == [t |-> "null", n |-> 0, s |-> <<>>]
Num(h) == [t |-> "number", n |-> h, s |-> <<>>]
Str(cs) == [t |-> "string", n |-> 0, s |-> cs]

\* typeof v === 'number'
IsNumber(v) == v.t = "number"

\* typeof v === 'string'
IsString(v) == v.t = "string"

\* !v : undefined, null, the empty string and the number 0 are falsy
Falsy(v) ==
    \/ v.t = "undefined"
    \/ v.t = "null"
    \/ v.t = "string" /\ v.s = <<>>
    \/ v.t = "number" /\ v.n = 0

\* a destructuring default applies to undefined only (not to null)
WithDefault(v, d) == IF v.t = "undefined" THEN d ELSE v

Min(a, b) == IF a < b THEN a ELSE b
Max(a, b) == IF a > b THEN a ELSE b

(***************************************************************************)
(* Floating-point arithmetic.  A JavaScript number is a binary floating-   *)
(* point value; the model keeps SignificandBits bits of significand (the   *)
(* engine keeps 53).  A result is the quotient num / den of two integers,  *)
(* den a power of two, in hundredths.  Every integer below                 *)
(* 2^SignificandBits is a value of the format.                             *)
(***************************************************************************)
SignificandBits == 7

RECURSIVE Pow2(_)
Pow2(k) == IF k = 0 THEN 1 ELSE 2 * Pow2(k - 1)

\* num / den with the common factors of two taken out
RECURSIVE Reduced(_, _)
Reduced(num, den) ==
    IF den > 1 /\ num % 2 = 0 THEN Reduced(num \div 2, den \div 2)
    ELSE [num |-> num, den |-> den]

\* n / d (n >= 0, d > 0) rounded to the nearest value of the format, ties to
\* the even significand
RoundToFloat(n, d) ==
    IF n = 0 THEN [num |-> 0, den |-> 1]
    ELSE LET lo == Pow2(SignificandBits - 1)
             hi == Pow2(SignificandBits)
             Fits(e) == IF e >= 0
                        THEN lo * d * Pow2(e) <= n /\ n < hi * d * Pow2(e)
                        ELSE lo * d <= n * Pow2(-e) /\ n * Pow2(-e) < hi * d
             e == CHOOSE k \in (0 - 2 * SignificandBits)..(2 * SignificandBits) : Fits(k)
             sn == IF e >= 0 THEN n ELSE n * Pow2(-e)
             sd == IF e >= 0 THEN d * Pow2(e) ELSE d
             q == sn \div sd
             r == sn % sd
             m == IF 2 * r > sd \/ (2 * r = sd /\ q % 2 = 1) THEN q + 1 ELSE q
         IN IF e >= 0 THEN [num |-> m * Pow2(e), den |-> 1] ELSE Reduced(m, Pow2(-e))

\* a + x for a result a and an integer x
FloatAdd(a, x) == RoundToFloat(a.num + x * a.den, a.den)

\* a / k for a result a and a positive integer k
FloatDiv(a, k) == RoundToFloat(a.num, a.den * k)

(***************************************************************************)
(* Strings                                                                 *)
(***************************************************************************)
Digit == <<"0", "1", "2", "3", "4", "5", "6", "7", "8", "9">>
IsDigit(c) == \E i \in 1..10 : Digit[i] = c
DigitValue(c) == (CHOOSE i \in 1..10 : Digit[i] = c) - 1

\* decimal digits of a natural number
RECURSIVE Digits(_)
Digits(k) == IF k < 10 THEN <<Digit[k + 1]>> ELSE Digits(k \div 10) \o <<Digit[(k % 10) + 1]>>

\* String(v): the text of a value; a number in hundredths prints its integer
\* part and, when it has one, its fraction without trailing zero
NumberToString(h) ==
    LET a == IF h < 0 THEN -h ELSE h
        ip == a \div 100
        fr == a % 100
        sign == IF h < 0 THEN <<"-">> ELSE <<>>
        frac == IF fr = 0 THEN <<>>
                ELSE IF fr % 10 = 0 THEN <<".", Digit[(fr \div 10) + 1]>>
                ELSE <<".", Digit[(fr \div 10) + 1], Digit[(fr % 10) + 1]>>
    IN sign \o Digits(ip) \o frac

StringOf(v) ==
    CASE v.t = "string" -> v.s
      [] v.t = "number" -> NumberToString(v.n)
      [] v.t = "null" -> <<"n", "u", "l", "l">>
      [] OTHER -> <<"u", "n", "d", "e", "f", "i", "n", "e", "d">>

\* s without its leading blanks
RECURSIVE TrimStart(_)
TrimStart(s) == IF s # <<>> /\ Head(s) = " " THEN TrimStart(Tail(s)) ELSE s

\* the longest prefix of s made of digits
RECURSIVE LeadingDigits(_)
LeadingDigits(s) ==
    IF s # <<>> /\ IsDigit(Head(s)) THEN <<Head(s)>> \o LeadingDigits(Tail(s)) ELSE <<>>

RECURSIVE DigitsValue(_)
DigitsValue(ds) ==
    IF ds = <<>> THEN 0
    ELSE 10 * DigitsValue(SubSeq(ds, 1, Len(ds) - 1)) + DigitValue(ds[Len(ds)])

\* parseInt(s), radix 10: blanks, an optional sign, then digits; what follows
\* the digits is ignored; no digit at all gives NaN
ParseInt(s) ==
    LET t0 == TrimStart(s)
        neg == t0 # <<>> /\ Head(t0) = "-"
        t1 == IF t0 # <<>> /\ Head(t0) \in {"-", "+"} THEN Tail(t0) ELSE t0
        ds == LeadingDigits(t1)
    IN IF ds = <<>> THEN [nan |-> TRUE, v |-> 0]
       ELSE [nan |-> FALSE, v |-> IF neg THEN -DigitsValue(ds) ELSE DigitsValue(ds)]

\* s.split(sep) for a one-character separator
RECURSIVE Split(_, _)
Split(s, sep) ==
    IF \A i \in 1..Len(s) : s[i] # sep THEN <<s>>
    ELSE LET i == CHOOSE j \in 1..Len(s) : s[j] = sep /\ \A k \in 1..(j - 1) : s[k] # sep
         IN <<SubSeq(s, 1, i - 1)>> \o Split(SubSeq(s, i + 1, Len(s)), sep)

\* s.includes(sub)
Includes(s, sub) ==
    \E i \in 0..(Len(s) - Len(sub)) : SubSeq(s, i + 1, i + Len(sub)) = sub

\* words.join(sep)
RECURSIVE Join(_, _)
Join(ws, sep) ==
    IF ws = <<>> THEN <<>>
    ELSE IF Len(ws) = 1 THEN ws[1]
    ELSE ws[1] \o <<sep>> \o Join(Tail(ws), sep)

(***************************************************************************)
(* Inputs: the request bodies, path parameters and headers that are tried  *)
(***************************************************************************)
MaxWords == 3

EmptyWord == <<>>
Sync == <<"s", "y", "n", "c">>
Exact == <<"e", "x", "a", "c", "t">>
Specific == <<"s", "p", "e", "c", "i", "f", "i", "c">>
Synchronization == <<"s", "y", "n", "c", "h", "r", "o", "n", "i", "z", "a", "t", "i", "o", "n">>
Words == {EmptyWord, Sync, Exact, Specific, Synchronization}

\* the two queries spelled out in the specification's examples
SyncFiles == Sync \o <<" ", "f", "i", "l", "e", "s">>
FindExactSpecific ==
    <<"f", "i", "n", "d", " ", "t", "h", "e", " ">> \o Exact \o <<" ">> \o Specific
      \o <<" ", "c", "o", "n", "f", "i", "g", "u", "r", "a", "t", "i", "o", "n", " ",
           "f", "o", "r", " ", "d", "a", "t", "a", "b", "a", "s", "e", " ",
           "c", "o", "n", "n", "e", "c", "t", "i", "o", "n", " ",
           "p", "o", "o", "l", "i", "n", "g">>

\* query strings: up to MaxWords words joined by single blanks (an empty word
\* gives a leading, trailing or doubled blank), and the two examples
QueryStrings ==
    {Join(ws, " ") : ws \in UNION {[1..k -> Words] : k \in 0..MaxWords}}
      \cup {SyncFiles, FindExactSpecific}

\* body.query: absent, null, a number, or a string (the empty one included)
QueryInputs == {Undefined, Null, Num(4200)} \cup {Str(q) : q \in QueryStrings}

\* body.limit: absent, null, numbers (0, -5, -0.5, 1, 7.9, 100, 250) and strings
LimitInputs ==
    {Undefined, Null, Num(0), Num(-500), Num(-50), Num(100), Num(790), Num(10000),
     Num(25000), Str(<<"1", "5", "p", "x">>), Str(<<"a", "b", "c">>), Str(<<" ", "-", "3">>)}

\* body.threshold: absent, null, a string, numbers (-0.5, 0, 0.3, 1, 1.5)
ThresholdInputs ==
    {Undefined, Null, Str(<<"0", ".", "7">>), Num(-50), Num(0), Num(30), Num(100), Num(150)}

\* a JavaScript object, known by its keys
Obj(keys) == [t |-> "object", n |-> 0, s |-> keys]

\* body.toolName: absent, empty, plain names, a server-qualified name
ToolNameInputs ==
    {Undefined, Str(<<>>), Str(<<"x">>), Str(<<"y">>), Str(<<"q">>), Str(<<"B", "/", "x">>)}

\* body.arguments: absent, {} or {path: ...}
ArgumentInputs == {Undefined, Obj(<<>>), Obj(<<"path">>)}

\* req.params.server: no path segment, a connected server, an unknown server
ServerParamInputs == {Undefined, Str(<<"A">>), Str(<<"Z">>)}

\* req.headers['x-session-id']: absent, sent with an empty value, or set
SessionHeaderInputs == {Undefined, Str(<<>>), Str(<<"s", "1">>)}

(***************************************************************************)
(* searchTools: validation, feature gate, effective limit and threshold    *)
(***************************************************************************)
\* a validation that lets the empty string through
InvalidQueryTypeOnly(query) == ~IsString(query)

\* !query || typeof query !== 'string'
InvalidQuery(query) == Falsy(query) \/ ~IsString(query)

\* a feature gate that is never closed
GateIgnored(config) == FALSE

\* !smartRoutingConfig.enabled
GateClosed(config) == ~config.enabled

\* const { query, limit = 10, threshold = 0.65 } = req.body
DefaultLimit == Num(1000)
DefaultThreshold == Num(65)

\* parseInt(String(limit)) || 10 : NaN and 0 are both falsy
ParsedLimit(limit) ==
    LET p == ParseInt(StringOf(limit))
    IN IF p.nan \/ p.v = 0 THEN 10 ELSE p.v

\* Math.min(Math.max(parseInt(String(limit)) || 10, 1), 100)
LimitNum(limit) == Min(Max(ParsedLimit(limit), 1), 100)

\* query.length < 10 || query.split(' ').length <= 2
BroadQuery(q) == Len(q) < 10 \/ Len(Split(q, " ")) <= 2

\* query.length > 30 || query.includes('specific') || query.includes('exact')
SpecificQuery(q) == Len(q) > 30 \/ Includes(q, Specific) \/ Includes(q, Exact)

\* thresholdNum without the clamp of an explicit threshold
ThresholdNumUnclamped(q, threshold) ==
    LET t0 == IF IsNumber(threshold) THEN threshold.n ELSE 65
        t1 == IF ~IsNumber(threshold) /\ BroadQuery(q) THEN 50 ELSE t0
        t2 == IF ~IsNumber(threshold) /\ SpecificQuery(q) THEN 75 ELSE t1
    IN t2

\* thresholdNum with the adjustment applied to an explicit threshold as well
ThresholdNumAlwaysAdjusted(q, threshold) ==
    LET t0 == IF IsNumber(threshold) THEN Max(0, Min(100, threshold.n)) ELSE 65
        t1 == IF BroadQuery(q) THEN 50 ELSE t0
        t2 == IF SpecificQuery(q) THEN 75 ELSE t1
    IN t2

\* thresholdNum, from the query text q and the value of threshold after its
\* destructuring default
ThresholdNum(q, threshold) ==
    LET t0 == IF IsNumber(threshold) THEN Max(0, Min(100, threshold.n)) ELSE 65
        t1 == IF ~IsNumber(threshold) /\ BroadQuery(q) THEN 50 ELSE t0
        t2 == IF ~IsNumber(threshold) /\ SpecificQuery(q) THEN 75 ELSE t1
    IN t2

(***************************************************************************)
(* searchTools: ranking and grouping                                       *)
(***************************************************************************)
\* the pair p = <<key, element>> put into the sequence ps of such pairs, sorted
\* by key descending, behind every pair that does not sort after it
\* (Array.prototype.sort is stable)
RECURSIVE InsertDescending(_, _)
InsertDescending(ps, p) ==
    IF ps = <<>> THEN <<p>>
    ELSE IF Head(ps)[1] >= p[1] THEN <<Head(ps)>> \o InsertDescending(Tail(ps), p)
    ELSE <<p>> \o ps

RECURSIVE SortPairsDescending(_)
SortPairsDescending(ps) ==
    IF ps = <<>> THEN <<>>
    ELSE InsertDescending(SortPairsDescending(SubSeq(ps, 1, Len(ps) - 1)), ps[Len(ps)])

\* a sort by similarity that puts the lowest first
SortBySimilarityAscending(s) ==
    LET sorted == SortPairsDescending([i \in 1..Len(s) |-> <<s[i].similarity, s[i]>>])
    IN [i \in 1..Len(s) |-> sorted[Len(s) + 1 - i][2]]

\* a sort whose order of equal similarities is not the same in every call:
\* from the second request of the process on it takes them last first
SortBySimilarityVarying(s) ==
    LET n == Len(s)
        t == IF earlier.req.handler = "none" THEN s ELSE [i \in 1..n |-> s[n + 1 - i]]
        sorted == SortPairsDescending([i \in 1..n |-> <<t[i].similarity, t[i]>>])
    IN [i \in 1..n |-> sorted[i][2]]

\* s.sort((a, b) => b.similarity - a.similarity)
SortBySimilarity(s) ==
    LET sorted == SortPairsDescending([i \in 1..Len(s) |-> <<s[i].similarity, s[i]>>])
    IN [i \in 1..Len(s) |-> sorted[i][2]]

\* a sort of the servers that puts the lowest maxSimilarity first
SortByMaxSimilarityAscending(s) ==
    LET sorted == SortPairsDescending([i \in 1..Len(s) |-> <<s[i].maxSimilarity, s[i]>>])
    IN [i \in 1..Len(s) |-> sorted[Len(s) + 1 - i][2]]

\* servers.sort((a, b) => b.maxSimilarity - a.maxSimilarity)
SortByMaxSimilarity(s) ==
    LET sorted == SortPairsDescending([i \in 1..Len(s) |-> <<s[i].maxSimilarity, s[i]>>])
    IN [i \in 1..Len(s) |-> sorted[i][2]]

\* the entry pushed on a server's tools list for a result
ToolEntry(r) ==
    [name |-> r.toolName, description |-> r.description, inputSchema |-> r.inputSchema,
     similarity |-> r.similarity, serverName |-> r.serverName]

\* a grouping that opens a group for every result, also for a server seen before
ServerOrderPerResult(rs) == [i \in 1..Len(rs) |-> rs[i].serverName]

\* the keys of serverMap in insertion order: server names by first appearance
RECURSIVE ServerOrder(_)
ServerOrder(rs) ==
    IF rs = <<>> THEN <<>>
    ELSE LET before == ServerOrder(SubSeq(rs, 1, Len(rs) - 1))
             name == rs[Len(rs)].serverName
         IN IF \E i \in 1..Len(before) : before[i] = name THEN before
            ELSE Append(before, name)

RECURSIVE MapToEntries(_)
MapToEntries(rs) == IF rs = <<>> THEN <<>> ELSE <<ToolEntry(Head(rs))>> \o MapToEntries(Tail(rs))

\* a grouping that keeps only the first result of each server
ServerToolsFirstOnly(rs, name) ==
    LET OfServer(r) == r.serverName = name
    IN MapToEntries(SubSeq(SelectSeq(rs, OfServer), 1, 1))

\* serverMap.get(name).tools after the forEach
ServerTools(rs, name) ==
    LET OfServer(r) == r.serverName = name
    IN MapToEntries(SelectSeq(rs, OfServer))

\* tools.reduce((sum, tool) => sum + tool.similarity, 0): the running sum is
\* rounded at every addition
RECURSIVE SumSimilarity(_)
SumSimilarity(ts) ==
    IF ts = <<>> THEN [num |-> 0, den |-> 1]
    ELSE FloatAdd(SumSimilarity(SubSeq(ts, 1, Len(ts) - 1)), ts[Len(ts)].similarity)

\* the lowest similarity instead of the highest
MinOfSimilarities(ts) ==
    CHOOSE m \in {ts[i].similarity : i \in 1..Len(ts)} :
        \A i \in 1..Len(ts) : m <= ts[i].similarity

\* Math.max(...tools.map(tool => tool.similarity))
MaxOfSimilarities(ts) ==
    CHOOSE m \in {ts[i].similarity : i \in 1..Len(ts)} :
        \A i \in 1..Len(ts) : ts[i].similarity <= m

\* a group whose tools are listed lowest similarity first
ServerGroupAscending(rs, name) ==
    LET tools == SortBySimilarityAscending(ServerTools(rs, name))
    IN [serverName |-> name,
        tools |-> tools,
        maxSimilarity |-> MaxOfSimilarities(tools),
        avgSimilarity |-> FloatDiv(SumSimilarity(tools), Len(tools))]

\* one element of servers; avgSimilarity is the quotient num / den
ServerGroup(rs, name) ==
    LET tools == SortBySimilarity(ServerTools(rs, name))
    IN [serverName |-> name,
        tools |-> tools,
        maxSimilarity |-> MaxOfSimilarities(tools),
        avgSimilarity |-> FloatDiv(SumSimilarity(tools), Len(tools))]

\* servers, sorted by maxSimilarity
Servers(sortedResults) ==
    LET order == ServerOrder(sortedResults)
    IN SortByMaxSimilarity([i \in 1..Len(order) |-> ServerGroup(sortedResults, order[i])])

GuidelineFound == "Found relevant tools. If these tools don't match exactly what you need, try another search with more specific keywords."
GuidelineNone == "No tools found. Try broadening your search or using different keywords."
NextStepsFound == "Use the found tools in your servers."
NextStepsNone == "Consider searching for related capabilities or more general terms."

\* a response whose metadata reports the default threshold and counts tools
\* where it should count servers
SearchResponseOtherMetadata(query, thresholdNum, searchResults) ==
    LET sortedResults == SortBySimilarity(searchResults)
        servers == Servers(sortedResults)
    IN [success |-> TRUE,
        data |-> [tools |-> sortedResults,
                  servers |-> servers,
                  metadata |-> [query |-> query,
                                threshold |-> DefaultThreshold.n,
                                totalResults |-> Len(sortedResults),
                                serverCount |-> Len(sortedResults),
                                guideline |-> IF Len(sortedResults) > 0 THEN GuidelineFound
                                              ELSE GuidelineNone,
                                nextSteps |-> IF Len(sortedResults) > 0 THEN NextStepsFound
                                              ELSE NextStepsNone]]]

\* the body of the successful search response
SearchResponse(query, thresholdNum, searchResults) ==
    LET sortedResults == SortBySimilarity(searchResults)
        servers == Servers(sortedResults)
    IN [success |-> TRUE,
        data |-> [tools |-> sortedResults,
                  servers |-> servers,
                  metadata |-> [query |-> query,
                                threshold |-> thresholdNum,
                                totalResults |-> Len(sortedResults),
                                serverCount |-> Len(servers),
                                guideline |-> IF Len(sortedResults) > 0 THEN GuidelineFound
                                              ELSE GuidelineNone,
                                nextSteps |-> IF Len(sortedResults) > 0 THEN NextStepsFound
                                              ELSE NextStepsNone]]]

(***************************************************************************)
(* Collaborators                                                           *)
(***************************************************************************)
Candidate(server, tool, sim) ==
    [serverName |-> server, toolName |-> tool, description |-> "description",
     inputSchema |-> "schema", similarity |-> sim]

\* what the index holds for a query, before its threshold and limit apply
IndexHits ==
    {<<>>,
     <<Candidate("A", "x", 90), Candidate("B", "y", 95), Candidate("A", "z", 80)>>,
     <<Candidate("B", "w", 60), Candidate("A", "z", 80), Candidate("B", "y", 80)>>}

\* the candidates of hits at or above the threshold, at most limit of them, in
\* the order the index yields them
IndexSelect(hits, limit, threshold) ==
    LET Passes(c) == c.similarity >= threshold
        passing == SelectSeq(hits, Passes)
    IN SubSeq(passing, 1, Min(Len(passing), limit))

\* searchToolsByVector(query, limit, threshold): what the call may resolve to
SearchToolsByVector(query, limit, threshold) ==
    {IndexSelect(h, limit, threshold) : h \in IndexHits}

\* a thrown value: an Error with its message, or a value that is no Error
ErrorObject(message) == [isError |-> TRUE, message |-> message]
NonError == [isError |-> FALSE, message |-> ""]

IndexFaults == {ErrorObject("index unavailable"), NonError}

\* the registry of backend adapters: the connected servers and their tools
Adapters ==
    {[server |-> <<"A">>, tools |-> {<<"x">>, <<"z">>}],
     [server |-> <<"B">>, tools |-> {<<"x">>, <<"y">>}]}

TextItem(text) == [type |-> "text", text |-> text]

\* what a backend adapter may do with an invocation: return content, return
\* nothing, flag an error itself, or throw
AdapterReturns ==
    {[content |-> <<TextItem("done")>>],
     [content |-> <<TextItem("part 1"), TextItem("part 2")>>, isError |-> FALSE],
     [content |-> <<TextItem("tool reported an error")>>, isError |-> TRUE],
     [isError |-> FALSE]}
AdapterFaults == {"Error: connection closed"}
ResolutionFault == "Error: server not found"

\* the result returned for a failure that the dispatcher absorbs
ErrorResult(message) == [content |-> <<TextItem(message)>>, isError |-> TRUE]

\* the servers a call may be routed to: the hinted server, the server a
\* qualified name "server/tool" names, else the owners of the tool name
Targets(call) ==
    LET name == call.request.params.arguments.toolName
        hint == call.extra.server
        parts == Split(StringOf(name), "/")
    IN IF hint.t # "undefined" THEN {hint.s}
       ELSE IF Len(parts) >= 2 THEN {parts[1]}
       ELSE {a.server : a \in {b \in Adapters : StringOf(name) \in b.tools}}

\* handleCallToolRequest(mockRequest, extra), when it returns: the kind of
\* outcome and the result.  A target that is no connected server cannot be
\* resolved; with several owners and no hint any owner, or none, may be taken
HandleCallToolRequest(call) ==
    LET targets == Targets(call)
        live == {t \in targets : \E a \in Adapters : a.server = t}
        unresolved == [kind |-> "unresolved", result |-> ErrorResult(ResolutionFault)]
        invoked == {[kind |-> "returned", result |-> r] : r \in AdapterReturns}
                     \cup {[kind |-> "adapterThrew", result |-> ErrorResult(m)] : m \in AdapterFaults}
    IN (IF live # {} THEN invoked ELSE {})
         \cup (IF Cardinality(live) # 1 THEN {unresolved} ELSE {})

DispatcherFaults == {ErrorObject("unexpected exception"), NonError}

(***************************************************************************)
(* State                                                                   *)
(***************************************************************************)

\* the state of the backend
backend ==
    <<smartRoutingEnabled, pc, req, configCalls, indexCalls, dispatchCalls, outcome, res,
      earlier>>

vars == <<backend, frontend>>

NoRequest == [handler |-> "none"]
NoOutcome == [kind |-> "none"]
NoEarlier == [req |-> NoRequest, outcome |-> NoOutcome, res |-> <<>>]

\* the frontend before anything has happened in it
NoLookup == [called |-> FALSE]
ServiceIdle == [pc |-> "idle"]
PageMounted ==
    [searchQuery |-> <<>>, isSearching |-> FALSE, searchResults |-> Null,
     hasSearched |-> FALSE, inFlight |-> {}, submitted |-> 0, latest |-> <<>>]
CardMounted ==
    [isToggling |-> FALSE, enabled |-> "undefined", hasOnToggle |-> TRUE,
     clicks |-> 0, inFlight |-> 0, calls |-> <<>>, settled |-> <<>>]

\* the backend waiting for its first request
BackendInit ==
    /\ smartRoutingEnabled \in BOOLEAN
    /\ pc = "idle"
    /\ req = NoRequest
    /\ configCalls = 0
    /\ indexCalls = <<>>
    /\ dispatchCalls = <<>>
    /\ outcome = NoOutcome
    /\ res = <<>>
    /\ earlier = NoEarlier

Init ==
    /\ BackendInit
    /\ lookup = NoLookup
    /\ service = ServiceIdle
    /\ page = PageMounted
    /\ card = CardMounted

\* getSmartRoutingConfig()
GetSmartRoutingConfig == [enabled |-> smartRoutingEnabled]

\* a handler that goes on after it has answered and answers a second time
SendTwice(code, body) ==
    res' = res \o <<[status |-> code, body |-> body], [status |-> code, body |-> body]>>

\* res.status(code).json(body)
Send(code, body) == res' = Append(res, [status |-> code, body |-> body])

(***************************************************************************)
(* The settings store switches smart routing on or off between requests    *)
(***************************************************************************)
SetSmartRouting(enabled) ==
    /\ pc = "idle"
    /\ enabled # smartRoutingEnabled
    /\ smartRoutingEnabled' = enabled
    /\ UNCHANGED <<pc, req, configCalls, indexCalls, dispatchCalls, outcome, res, earlier,
                 frontend>>

(***************************************************************************)
(* searchTools                                                             *)
(***************************************************************************)
\* the handler up to its await: validation, feature gate, effective limit and
\* threshold, and the call of the index
SearchTools(body) ==
    /\ pc = "idle"
    /\ req' = [handler |-> "searchTools", body |-> body]
    /\ LET query == body.query
           limit == WithDefault(body.limit, DefaultLimit)
           threshold == WithDefault(body.threshold, DefaultThreshold)
       IN IF InvalidQuery(query)
          THEN /\ Send(400, [success |-> FALSE,
                             message |-> "Query parameter is required and must be a string"])
               /\ pc' = "done"
               /\ UNCHANGED <<configCalls, indexCalls>>
          ELSE /\ configCalls' = configCalls + 1
               /\ IF GateClosed(GetSmartRoutingConfig)
                  THEN /\ Send(503, [success |-> FALSE,
                                     message |-> "Smart routing is not enabled. Please enable it in settings."])
                       /\ pc' = "done"
                       /\ UNCHANGED indexCalls
                  ELSE /\ indexCalls' = Append(indexCalls,
                                               [query |-> query.s,
                                                limit |-> LimitNum(limit),
                                                threshold |-> ThresholdNum(query.s, threshold)])
                       /\ pc' = "awaitIndex"
                       /\ UNCHANGED res
    /\ UNCHANGED <<smartRoutingEnabled, dispatchCalls, outcome, earlier, frontend>>

\* a handler that keeps the arguments of the index call in a variable of the
\* module, where the search started last overwrites them
IndexReturnsSharedCall(searchResults) ==
    /\ pc = "awaitIndex"
    /\ LET own == indexCalls[Len(indexCalls)]
           call == IF "indexCalls" \in DOMAIN earlier /\ earlier.indexCalls # <<>>
                   THEN earlier.indexCalls[1] ELSE own
       IN Send(200, SearchResponse(call.query, call.threshold, searchResults))
    /\ outcome' = [kind |-> "returned", result |-> searchResults]
    /\ pc' = "done"
    /\ UNCHANGED <<smartRoutingEnabled, req, configCalls, indexCalls, dispatchCalls, earlier,
                 frontend>>

\* searchToolsByVector resolves: sort, group, respond
IndexReturns(searchResults) ==
    /\ pc = "awaitIndex"
    /\ LET call == indexCalls[Len(indexCalls)]
       IN Send(200, SearchResponse(call.query, call.threshold, searchResults))
    /\ outcome' = [kind |-> "returned", result |-> searchResults]
    /\ pc' = "done"
    /\ UNCHANGED <<smartRoutingEnabled, req, configCalls, indexCalls, dispatchCalls, earlier,
                 frontend>>

\* error instanceof Error ? error.message : 'Unknown error occurred'
ErrorText(error) == IF error.isError THEN error.message ELSE "Unknown error occurred"

\* a rejection that no catch block handles: nothing is sent
IndexThrowsUnhandled(error) ==
    /\ pc = "awaitIndex"
    /\ outcome' = [kind |-> "threw", error |-> error]
    /\ pc' = "done"
    /\ UNCHANGED <<smartRoutingEnabled, req, configCalls, indexCalls, dispatchCalls, res,
                 earlier, frontend>>

\* searchToolsByVector rejects: the catch block
IndexThrows(error) ==
    /\ pc = "awaitIndex"
    /\ Send(500, [success |-> FALSE, message |-> "Failed to search tools",
                  error |-> ErrorText(error)])
    /\ outcome' = [kind |-> "threw", error |-> error]
    /\ pc' = "done"
    /\ UNCHANGED <<smartRoutingEnabled, req, configCalls, indexCalls, dispatchCalls, earlier,
                 frontend>>

(***************************************************************************)
(* callTool                                                                *)
(***************************************************************************)
DefaultSession == Str(<<"a", "p", "i", "-", "s", "e", "s", "s", "i", "o", "n">>)

\* a validation that only rejects an absent toolName
MissingToolNameUndefinedOnly(toolName) == toolName.t = "undefined"

\* !toolName
MissingToolName(toolName) == Falsy(toolName)

\* a ?? b: only an absent a gives way to b
OrElseNullish(a, b) == IF a.t \in {"undefined", "null"} THEN b ELSE a

\* a || b
OrElse(a, b) == IF Falsy(a) THEN b ELSE a

\* the handler up to its await: validation, then the call of the dispatcher
CallTool(server, sessionHeader, body) ==
    /\ pc = "idle"
    /\ req' = [handler |-> "callTool", params |-> [server |-> server],
               headers |-> [sessionId |-> sessionHeader], body |-> body]
    /\ LET toolName == body.toolName
           toolArgs == WithDefault(body.arguments, Obj(<<>>))
       IN IF MissingToolName(toolName)
          THEN /\ Send(400, [success |-> FALSE, message |-> "toolName is required"])
               /\ pc' = "done"
               /\ UNCHANGED dispatchCalls
          ELSE /\ dispatchCalls' =
                      Append(dispatchCalls,
                             [request |-> [params |-> [name |-> "call_tool",
                                                       arguments |-> [toolName |-> toolName,
                                                                      arguments |-> toolArgs]]],
                              extra |-> [sessionId |-> OrElse(sessionHeader, DefaultSession),
                                         server |-> OrElse(server, Undefined)]])
               /\ pc' = "awaitDispatch"
               /\ UNCHANGED res
    /\ UNCHANGED <<smartRoutingEnabled, configCalls, indexCalls, outcome, earlier, frontend>>

\* a response that reports a result flagged isError as a failure without content
CallToolResponseFailsOnError(result, toolName, toolArgs) ==
    LET flagged == "isError" \in DOMAIN result /\ result.isError
    IN [success |-> ~flagged,
        data |-> [content |-> IF "content" \in DOMAIN result /\ ~flagged THEN result.content
                              ELSE <<>>,
                  toolName |-> toolName,
                  arguments |-> toolArgs]]

\* the body of the successful callTool response
CallToolResponse(result, toolName, toolArgs) ==
    [success |-> TRUE,
     data |-> [content |-> IF "content" \in DOMAIN result THEN result.content ELSE <<>>,
               toolName |-> toolName,
               arguments |-> toolArgs]]

\* handleCallToolRequest resolves: respond with the result's content
DispatchReturns(o) ==
    /\ pc = "awaitDispatch"
    /\ outcome = NoOutcome
    /\ LET call == dispatchCalls[Len(dispatchCalls)]
       IN /\ o \in HandleCallToolRequest(call)
          /\ Send(200, CallToolResponse(o.result, call.request.params.arguments.toolName,
                                        call.request.params.arguments.arguments))
    /\ outcome' = o
    /\ pc' = "done"
    /\ UNCHANGED <<smartRoutingEnabled, req, configCalls, indexCalls, dispatchCalls, earlier,
                 frontend>>

\* a handler that calls the dispatcher again when the call has thrown
DispatchThrowsRetried(error) ==
    /\ pc = "awaitDispatch"
    /\ dispatchCalls' = Append(dispatchCalls, dispatchCalls[Len(dispatchCalls)])
    /\ UNCHANGED <<smartRoutingEnabled, pc, req, configCalls, indexCalls, outcome, res, earlier,
                 frontend>>

\* handleCallToolRequest rejects: the catch block
DispatchThrows(error) ==
    /\ pc = "awaitDispatch"
    /\ outcome = NoOutcome
    /\ Send(500, [success |-> FALSE, message |-> "Failed to call tool",
                  error |-> ErrorText(error)])
    /\ outcome' = [kind |-> "threw", error |-> error]
    /\ pc' = "done"
    /\ UNCHANGED <<smartRoutingEnabled, req, configCalls, indexCalls, dispatchCalls, earlier,
                 frontend>>

\* the request is over; the server waits for the next one
NextRequest ==
    /\ pc = "done"
    /\ pc' = "idle"
    /\ req' = NoRequest
    /\ configCalls' = 0
    /\ indexCalls' = <<>>
    /\ dispatchCalls' = <<>>
    /\ outcome' = NoOutcome
    /\ res' = <<>>
    /\ UNCHANGED <<smartRoutingEnabled, earlier, frontend>>

\* a search request arrives with any body
SearchRequest ==
    /\ pc = "idle"
    /\ \E query \in QueryInputs, limit \in LimitInputs, threshold \in ThresholdInputs :
          SearchTools([query |-> query, limit |-> limit, threshold |-> threshold])

\* an invocation request arrives with any path segment, header and body
CallRequest ==
    /\ pc = "idle"
    /\ \E server \in ServerParamInputs, sessionHeader \in SessionHeaderInputs,
          toolName \in ToolNameInputs, arguments \in ArgumentInputs :
          CallTool(server, sessionHeader, [toolName |-> toolName, arguments |-> arguments])

\* the index answers the pending query
IndexAnswer ==
    /\ pc = "awaitIndex"
    /\ LET call == indexCalls[Len(indexCalls)]
       IN \E searchResults \in SearchToolsByVector(call.query, call.limit, call.threshold) :
             IndexReturns(searchResults)

\* the dispatcher answers the pending invocation
DispatchAnswer ==
    /\ pc = "awaitDispatch"
    /\ \E o \in HandleCallToolRequest(dispatchCalls[Len(dispatchCalls)]) : DispatchReturns(o)

Next ==
    \/ \E enabled \in BOOLEAN : SetSmartRouting(enabled)
    \/ SearchRequest
    \/ IndexAnswer
    \/ \E error \in IndexFaults : IndexThrows(error)
    \/ CallRequest
    \/ DispatchAnswer
    \/ \E error \in DispatcherFaults : DispatchThrows(error)
    \/ NextRequest

Spec == Init /\ [][Next]_vars

(***************************************************************************)
(* Calls whose backend adapter may block                                   *)
(***************************************************************************)
\* the backend adapter blocks forever: handleCallToolRequest never settles
DispatchHangs ==
    /\ pc = "awaitDispatch"
    /\ outcome = NoOutcome
    /\ outcome' = [kind |-> "hangs"]
    /\ UNCHANGED <<smartRoutingEnabled, pc, req, configCalls, indexCalls, dispatchCalls, res,
                 earlier, frontend>>

DispatchFails ==
    /\ pc = "awaitDispatch"
    /\ \E error \in DispatcherFaults : DispatchThrows(error)

NextLive ==
    \/ CallRequest
    \/ DispatchAnswer
    \/ DispatchFails
    \/ DispatchHangs
    \/ NextRequest

\* every step of the handler that can be taken is taken in the end
SpecLive == Init /\ [][NextLive]_vars /\ WF_vars(NextLive)

(***************************************************************************)
(* Two requests in flight at the same time.  A handler runs without        *)
(* interruption up to its await and again from there to its end; between   *)
(* these steps the event loop may turn to the other request.               *)
(***************************************************************************)
\* the state of the handler of a request
Context(p, r, cc, ic, dc, o, rs) ==
    [pc |-> p, req |-> r, configCalls |-> cc, indexCalls |-> ic, dispatchCalls |-> dc,
     outcome |-> o, res |-> rs]

IdleContext == Context("idle", NoRequest, 0, <<>>, <<>>, NoOutcome, <<>>)

\* the other request, none being one that has not arrived yet
Other == IF "pc" \in DOMAIN earlier THEN earlier ELSE IdleContext

\* the event loop turns from the request it was running to the other one
Switch ==
    /\ earlier' = Context(pc, req, configCalls, indexCalls, dispatchCalls, outcome, res)
    /\ pc' = Other.pc
    /\ req' = Other.req
    /\ configCalls' = Other.configCalls
    /\ indexCalls' = Other.indexCalls
    /\ dispatchCalls' = Other.dispatchCalls
    /\ outcome' = Other.outcome
    /\ res' = Other.res
    /\ UNCHANGED <<smartRoutingEnabled, frontend>>

\* the searches tried: a broad query without threshold, a one-word query with
\* threshold 0.85, and a request without query
ConcurrentBodies ==
    {[query |-> Str(SyncFiles), limit |-> Undefined, threshold |-> Undefined],
     [query |-> Str(Synchronization), limit |-> Num(200), threshold |-> Num(85)],
     [query |-> Undefined, limit |-> Undefined, threshold |-> Undefined]}

SearchRequestConcurrent ==
    /\ pc = "idle"
    /\ \E body \in ConcurrentBodies : SearchTools(body)

\* the calls tried: tool x or no tool, with and without the server named
CallRequestConcurrent ==
    /\ pc = "idle"
    /\ \E server \in {Undefined, Str(<<"A">>)}, toolName \in {Undefined, Str(<<"x">>)} :
          CallTool(server, Undefined, [toolName |-> toolName, arguments |-> Undefined])

IndexFails ==
    /\ pc = "awaitIndex"
    /\ \E error \in IndexFaults : IndexThrows(error)

NextConcurrent ==
    \/ SearchRequestConcurrent
    \/ CallRequestConcurrent
    \/ IndexAnswer
    \/ IndexFails
    \/ DispatchAnswer
    \/ DispatchFails
    \/ NextRequest
    \/ Switch

SpecConcurrent == Init /\ [][NextConcurrent]_vars

(***************************************************************************)
(* Ranking and grouping over every short answer of the index               *)
(***************************************************************************)
MaxResults == 3

\* the tools the index knows, each with its owning server
RankTools ==
    {[serverName |-> "A", toolName |-> "x"], [serverName |-> "A", toolName |-> "z"],
     [serverName |-> "A", toolName |-> "u"], [serverName |-> "B", toolName |-> "y"],
     [serverName |-> "B", toolName |-> "w"], [serverName |-> "C", toolName |-> "v"]}

\* the similarities a tool may get for a query (0.8, 0.9, 0.95)
RankSimilarities == {80, 90, 95}

\* every answer of at most MaxResults candidates, in any order, no tool twice
HitsOver(tools, similarities) ==
    UNION {{[i \in 1..k |-> Candidate(f[i][1].serverName, f[i][1].toolName, f[i][2])] :
              f \in {g \in [1..k -> tools \X similarities] :
                        \A i, j \in 1..k : i # j => g[i][1] # g[j][1]}} :
           k \in 0..MaxResults}

RankHits == HitsOver(RankTools, RankSimilarities)

\* the search requests tried: the default limit with threshold 0, and limit 2
\* with threshold 0.85
RankBodies ==
    {[query |-> Str(SyncFiles), limit |-> Undefined, threshold |-> Num(0)],
     [query |-> Str(SyncFiles), limit |-> Num(200), threshold |-> Num(85)]}

SearchRequestRank ==
    /\ pc = "idle"
    /\ \E body \in RankBodies : SearchTools(body)

IndexAnswerRank ==
    /\ pc = "awaitIndex"
    /\ LET call == indexCalls[Len(indexCalls)]
       IN \E h \in RankHits : IndexReturns(IndexSelect(h, call.limit, call.threshold))

InitRank == Init /\ smartRoutingEnabled

NextRank ==
    \/ SearchRequestRank
    \/ IndexAnswerRank
    \/ NextRequest

SpecRank == InitRank /\ [][NextRank]_vars

(***************************************************************************)
(* Two searches of one process, one after the other                        *)
(***************************************************************************)
TwiceTools ==
    {[serverName |-> "A", toolName |-> "x"], [serverName |-> "A", toolName |-> "z"],
     [serverName |-> "B", toolName |-> "y"]}
TwiceSimilarities == {80, 90}
TwiceHits == HitsOver(TwiceTools, TwiceSimilarities)

\* the first request is over and is kept, to compare the second with it
SecondRequest ==
    /\ pc = "done"
    /\ earlier = NoEarlier
    /\ earlier' = [req |-> req, outcome |-> outcome, res |-> res]
    /\ pc' = "idle"
    /\ req' = NoRequest
    /\ configCalls' = 0
    /\ indexCalls' = <<>>
    /\ dispatchCalls' = <<>>
    /\ outcome' = NoOutcome
    /\ res' = <<>>
    /\ UNCHANGED <<smartRoutingEnabled, frontend>>

IndexAnswerTwice ==
    /\ pc = "awaitIndex"
    /\ LET call == indexCalls[Len(indexCalls)]
       IN \E h \in TwiceHits : IndexReturns(IndexSelect(h, call.limit, call.threshold))

NextTwice ==
    \/ SearchRequestRank
    \/ IndexAnswerTwice
    \/ SecondRequest

SpecTwice == InitRank /\ [][NextTwice]_vars

(***************************************************************************)
(* Frontend: smartSearchService.ts, the servers of a search response.      *)
(* An array is Arr(items); a field that is absent holds Undefined; a name  *)
(* is a sequence of characters, the empty one standing for an absent name. *)
(***************************************************************************)
Arr(items) == [t |-> "array", items |-> items]

\* s.endsWith(suffix)
EndsWith(s, suffix) ==
    Len(s) >= Len(suffix) /\ SubSeq(s, Len(s) - Len(suffix) + 1, Len(s)) = suffix

\* the server names that getServersFromSearchResults collects from the tools
CollectedServerNames(searchResults) ==
    {searchResults[i].serverName :
        i \in {j \in 1..Len(searchResults) : searchResults[j].serverName # <<>>}}
    \cup {Split(searchResults[i].name, "/")[1] :
            i \in {j \in 1..Len(searchResults) : Includes(searchResults[j].name, <<"/">>)}}

\* searchResults.some(tool => server.tools?.some(...))
OwnsSomeTool(server, searchResults) ==
    \E i \in 1..Len(searchResults), k \in 1..Len(server.tools) :
        \/ server.tools[k].name = searchResults[i].name
        \/ /\ searchResults[i].name # <<>>
           /\ EndsWith(searchResults[i].name, <<"/">> \o server.tools[k].name)

\* getServersFromSearchResults(searchResults, allServers)
GetServersFromSearchResults(searchResults, allServers) ==
    IF Len(searchResults) = 0 THEN <<>>
    ELSE LET Kept(server) ==
                 \/ server.name \in CollectedServerNames(searchResults)
                 \/ OwnsSomeTool(server, searchResults)
         IN SelectSeq(allServers, Kept)

\* serverMap.get(name): the entry of allServers of that name, the last one
\* should there be several; none when there is no such entry
RECURSIVE MapGet(_, _)
MapGet(allServers, name) ==
    IF allServers = <<>> THEN <<>>
    ELSE IF allServers[Len(allServers)].name = name THEN <<allServers[Len(allServers)]>>
    ELSE MapGet(SubSeq(allServers, 1, Len(allServers) - 1), name)

\* searchData.servers.map(s => serverMap.get(s.serverName)).filter(Boolean)
RECURSIVE MapGroupsToServers(_, _)
MapGroupsToServers(groups, allServers) ==
    IF groups = <<>> THEN <<>>
    ELSE MapGet(allServers, Head(groups).serverName)
         \o MapGroupsToServers(Tail(groups), allServers)

\* a lookup that takes an empty servers array for a missing one
GetServersFallingBackOnEmpty(searchData, allServers) ==
    IF searchData.servers.t = "array" /\ searchData.servers.items # <<>>
    THEN MapGroupsToServers(searchData.servers.items, allServers)
    ELSE GetServersFromSearchResults(
             IF searchData.tools.t = "array" THEN searchData.tools.items ELSE <<>>,
             allServers)

\* getServersFromSearchResponse(searchData, allServers)
GetServersFromSearchResponse(searchData, allServers) ==
    IF searchData.servers.t = "array"
    THEN MapGroupsToServers(searchData.servers.items, allServers)
    ELSE GetServersFromSearchResults(
             IF searchData.tools.t = "array" THEN searchData.tools.items ELSE <<>>,
             allServers)

\* the servers the page knows, each with the tools it lists
ServerA == [name |-> <<"A">>, tools |-> <<[name |-> <<"x">>]>>]
ServerB == [name |-> <<"B">>, tools |-> <<[name |-> <<"y">>], [name |-> <<"w">>]>>]
ServerC == [name |-> <<"C">>, tools |-> <<>>]
KnownServers == {ServerA, ServerB, ServerC}

\* the sequences of n different elements of the set
Arrangements(set, n) ==
    {f \in [1..n -> set] : \A i, j \in 1..n : i # j => f[i] # f[j]}

\* allServers: some of the known servers in some order
AllServersInputs == UNION {Arrangements(KnownServers, n) : n \in 0..3}

\* searchData.servers: absent, null, or up to two groups, of known servers and
\* of a server the page does not know
GroupInputs == {[serverName |-> <<"A">>], [serverName |-> <<"B">>], [serverName |-> <<"Z">>]}
ServersFieldInputs ==
    {Undefined, Null} \cup {Arr(g) : g \in UNION {Arrangements(GroupInputs, n) : n \in 0..2}}

\* searchData.tools: absent, or tools named with and without their server
ToolsFieldInputs ==
    {Undefined,
     Arr(<<>>),
     Arr(<<[name |-> <<"y">>, serverName |-> <<"B">>]>>),
     Arr(<<[name |-> <<"A", "/", "x">>, serverName |-> <<>>]>>),
     Arr(<<[name |-> <<"w">>, serverName |-> <<>>]>>),
     Arr(<<[name |-> <<"q">>, serverName |-> <<"C">>], [name |-> <<"k">>, serverName |-> <<"Z">>]>>)}

\* getServersFromSearchResponse is about to be called with any of the inputs
InitLookup ==
    /\ BackendInit
    /\ smartRoutingEnabled
    /\ \E servers \in ServersFieldInputs, tools \in ToolsFieldInputs,
          allServers \in AllServersInputs :
          lookup = [called |-> FALSE,
                    searchData |-> [servers |-> servers, tools |-> tools],
                    allServers |-> allServers]
    /\ service = ServiceIdle
    /\ page = PageMounted
    /\ card = CardMounted

\* the call: the result is kept next to the arguments
CallGetServersFromSearchResponse ==
    /\ ~lookup.called
    /\ lookup' = [called |-> TRUE,
                  searchData |-> lookup.searchData,
                  allServers |-> lookup.allServers,
                  result |-> GetServersFromSearchResponse(lookup.searchData,
                                                          lookup.allServers)]
    /\ UNCHANGED <<backend, service, page, card>>

NextLookup == CallGetServersFromSearchResponse

SpecLookup == InitLookup /\ [][NextLookup]_vars

(***************************************************************************)
(* Frontend: smartSearchService.ts, searchTools                            *)
(***************************************************************************)
\* the error text used when nothing better is at hand (lines 55 and 68)
DefaultSearchError == "search failed"

\* `HTTP ${response.status}: ${response.statusText}`
HttpErrorText(response) ==
    CASE response.status = 400 -> "HTTP 400: Bad Request"
      [] response.status = 500 -> "HTTP 500: Internal Server Error"
      [] response.status = 503 -> "HTTP 503: Service Unavailable"
      [] OTHER -> "HTTP error"

\* what response.json() may find in the body: no JSON at all, null, or an
\* object with or without success, message and data
Unparsable == [json |-> FALSE]
Parsed(value) == [json |-> TRUE, value |-> value]
BodyInputs ==
    {Unparsable,
     Parsed(Null),
     Parsed([success |-> TRUE, data |-> Obj(<<"tools">>), message |-> Undefined]),
     Parsed([success |-> TRUE, data |-> Undefined, message |-> Undefined]),
     Parsed([success |-> FALSE, data |-> Undefined, message |-> Str(<<"n", "o">>)]),
     Parsed([success |-> FALSE, data |-> Undefined, message |-> Str(<<>>)]),
     Parsed([success |-> FALSE, data |-> Undefined, message |-> Undefined])}

\* response.ok: the status is in the range 200-299
Ok(status) == 200 <= status /\ status <= 299

\* how fetch may settle: it rejects, or it resolves with a response
NetworkError == [rejected |-> TRUE, error |-> ErrorObject("Failed to fetch")]
Response(status, body) == [rejected |-> FALSE, status |-> status, body |-> body]
FetchOutcomes ==
    {NetworkError} \cup {Response(status, body) : status \in {200, 400, 500, 503},
                                                  body \in BodyInputs}

\* the catch block: error instanceof Error ? error.message : the default
Caught(error) ==
    [success |-> FALSE, error |-> IF error.isError THEN error.message ELSE DefaultSearchError]

\* the queries the service is called with
ServiceQueries == {<<"a">>, <<"b">>, SyncFiles, FindExactSpecific}

\* searchTools(query, limit, threshold) up to await fetch(...)
ServiceSearchTools(query) ==
    /\ service.pc = "idle"
    /\ service' = [pc |-> "fetching",
                   body |-> [query |-> Str(query), limit |-> Num(2000),
                             threshold |-> Num(65)]]
    /\ UNCHANGED <<backend, lookup, page, card>>

\* a service without its catch block: what is thrown leaves the call
FetchSettlesUncaught(o) ==
    /\ service.pc = "fetching"
    /\ IF o.rejected \/ ~Ok(o.status)
       THEN service' = [pc |-> "rejected", body |-> service.body, fetch |-> o]
       ELSE service' = [pc |-> "parsing", body |-> service.body, fetch |-> o]
    /\ UNCHANGED <<backend, lookup, page, card>>

\* fetch settles: a rejection and a response that is not ok end in the catch
\* block, an ok response goes on to await response.json()
FetchSettles(o) ==
    /\ service.pc = "fetching"
    /\ IF o.rejected
       THEN service' = [pc |-> "returned", body |-> service.body, fetch |-> o,
                        result |-> Caught(o.error)]
       ELSE IF ~Ok(o.status)
       THEN service' = [pc |-> "returned", body |-> service.body, fetch |-> o,
                        result |-> Caught(ErrorObject(HttpErrorText(o)))]
       ELSE service' = [pc |-> "parsing", body |-> service.body, fetch |-> o]
    /\ UNCHANGED <<backend, lookup, page, card>>

\* what the service returns for the body of an ok response
ResultOfBody(body) ==
    IF ~body.json THEN Caught(ErrorObject("Unexpected token in JSON"))
    ELSE IF body.value = Null
    THEN Caught(ErrorObject("Cannot read properties of null"))
    ELSE IF ~body.value.success
    THEN [success |-> FALSE,
          error |-> IF Falsy(body.value.message) THEN DefaultSearchError
                    ELSE body.value.message.s]
    ELSE [success |-> TRUE, data |-> body.value.data]

\* response.json() settles and the service returns
JsonSettles ==
    /\ service.pc = "parsing"
    /\ service' = [pc |-> "returned", body |-> service.body, fetch |-> service.fetch,
                   result |-> ResultOfBody(service.fetch.body)]
    /\ UNCHANGED <<backend, lookup, page, card>>

\* the caller has the result; the service may be called again
ServiceDone ==
    /\ service.pc = "returned"
    /\ service' = ServiceIdle
    /\ UNCHANGED <<backend, lookup, page, card>>

ServiceCalled ==
    /\ service.pc = "idle"
    /\ \E query \in ServiceQueries : ServiceSearchTools(query)

FetchAnswer ==
    /\ service.pc = "fetching"
    /\ \E o \in FetchOutcomes : FetchSettles(o)

NextService ==
    \/ ServiceCalled
    \/ FetchAnswer
    \/ JsonSettles
    \/ ServiceDone

InitService == Init /\ smartRoutingEnabled

SpecService == InitService /\ [][NextService]_vars

(***************************************************************************)
(* Frontend: ServersPage, the search bar.  A handler sees the state of the *)
(* last render; page.inFlight holds the calls of searchTools that have not *)
(* resolved yet, page.latest the query of the search submitted last (empty *)
(* after the search has been cleared).                                     *)
(***************************************************************************)
MaxSearches == 3

\* s without its trailing blanks
RECURSIVE TrimEnd(_)
TrimEnd(s) ==
    IF s # <<>> /\ s[Len(s)] = " " THEN TrimEnd(SubSeq(s, 1, Len(s) - 1)) ELSE s

\* s.trim()
Trim(s) == TrimEnd(TrimStart(s))

\* what the user may have typed into the search field
SearchQueryInputs == {<<>>, <<" ">>, <<"a">>, <<"b", " ">>}

\* the servers of useServerData()
PageServers == <<ServerA, ServerB, ServerC>>

\* the data the backend finds for a query: the groups of the servers it names
DataFor(query) ==
    [query |-> query,
     servers |-> Arr(IF query = <<"a">> THEN <<[serverName |-> <<"A">>]>>
                     ELSE <<[serverName |-> <<"B">>], [serverName |-> <<"A">>]>>),
     tools |-> Undefined]

\* what searchTools may resolve to for a query
ServiceResults(query) ==
    {[success |-> TRUE, data |-> DataFor(query)],
     [success |-> TRUE, data |-> Undefined],
     [success |-> FALSE, error |-> DefaultSearchError]}

\* filteredServers
FilteredServers ==
    IF ~page.hasSearched \/ page.searchResults = Null THEN PageServers
    ELSE GetServersFromSearchResponse(page.searchResults, PageServers)

\* onChange of the search field: setSearchQuery(e.target.value)
TypeQuery(text) ==
    /\ text # page.searchQuery
    /\ page' = [page EXCEPT !.searchQuery = text]
    /\ UNCHANGED <<backend, lookup, service, card>>

\* handleSearch up to its await: by the Enter key at any time, by the button
\* when it is not disabled
HandleSearch ==
    /\ IF Trim(page.searchQuery) = <<>>
       THEN page' = [page EXCEPT !.searchResults = Null, !.hasSearched = FALSE,
                                 !.latest = <<>>]
       ELSE /\ page.submitted < MaxSearches
            /\ page' = [page EXCEPT !.isSearching = TRUE,
                                    !.submitted = page.submitted + 1,
                                    !.latest = Trim(page.searchQuery),
                                    !.inFlight = page.inFlight \cup
                                        {[id |-> page.submitted + 1,
                                          query |-> Trim(page.searchQuery)]}]
    /\ UNCHANGED <<backend, lookup, service, card>>

\* handleSearch from its await on: searchTools has resolved for the request
SearchResolves(request, result) ==
    /\ request \in page.inFlight
    /\ page' = [page EXCEPT
                  !.searchResults = IF result.success /\ result.data # Undefined
                                    THEN result.data ELSE Null,
                  !.hasSearched = TRUE,
                  !.isSearching = FALSE,
                  !.inFlight = page.inFlight \ {request}]
    /\ UNCHANGED <<backend, lookup, service, card>>

\* handleClearSearch: the button is there when hasSearched
HandleClearSearch ==
    /\ page.hasSearched
    /\ page' = [page EXCEPT !.searchQuery = <<>>, !.searchResults = Null,
                            !.hasSearched = FALSE, !.latest = <<>>]
    /\ UNCHANGED <<backend, lookup, service, card>>

UserTypes == \E text \in SearchQueryInputs : TypeQuery(text)

SearchAnswer ==
    \E request \in page.inFlight :
        \E result \in ServiceResults(request.query) : SearchResolves(request, result)

NextPage ==
    \/ UserTypes
    \/ HandleSearch
    \/ SearchAnswer
    \/ HandleClearSearch

InitPage == Init /\ smartRoutingEnabled

SpecPage == InitPage /\ [][NextPage]_vars

(***************************************************************************)
(* Frontend: ServerCard, the enable/disable button.  card.inFlight counts  *)
(* the calls of onToggle that have not settled, card.calls lists the       *)
(* second argument of every call made, card.settled how each call ended.   *)
(***************************************************************************)
MaxClicks == 3

\* server.enabled as the parent may pass it
EnabledInputs == {"undefined", "true", "false"}

\* !(server.enabled !== false)
ToggleArgument(enabled) == enabled = "false"

\* how the promise of onToggle may settle
ToggleOutcomes == {"resolved", "rejected"}

\* a handleToggle that starts a call on every click
ToggleRefusedNever == FALSE

\* the isToggling || !onToggle test of handleToggle
ToggleRefused == card.isToggling \/ ~card.hasOnToggle

\* the parent renders the card with new props
ParentRenders(enabled, hasOnToggle) ==
    /\ <<enabled, hasOnToggle>> # <<card.enabled, card.hasOnToggle>>
    /\ card' = [card EXCEPT !.enabled = enabled, !.hasOnToggle = hasOnToggle]
    /\ UNCHANGED <<backend, lookup, service, page>>

\* handleToggle up to its await; the click is delivered whether or not the
\* button has been rendered disabled
HandleToggle ==
    /\ card.clicks < MaxClicks
    /\ IF ToggleRefused
       THEN card' = [card EXCEPT !.clicks = card.clicks + 1]
       ELSE card' = [card EXCEPT !.clicks = card.clicks + 1,
                                 !.isToggling = TRUE,
                                 !.inFlight = card.inFlight + 1,
                                 !.calls = Append(card.calls,
                                                  ToggleArgument(card.enabled))]
    /\ UNCHANGED <<backend, lookup, service, page>>

\* handleToggle from its await on: the finally block
ToggleSettles(how) ==
    /\ card.inFlight > 0
    /\ card' = [card EXCEPT !.isToggling = FALSE,
                            !.inFlight = card.inFlight - 1,
                            !.settled = Append(card.settled, how)]
    /\ UNCHANGED <<backend, lookup, service, page>>

PropsChange ==
    \E enabled \in EnabledInputs, hasOnToggle \in BOOLEAN :
        ParentRenders(enabled, hasOnToggle)

ToggleAnswer == \E how \in ToggleOutcomes : ToggleSettles(how)

NextCard ==
    \/ PropsChange
    \/ HandleToggle
    \/ ToggleAnswer

InitCard == Init /\ smartRoutingEnabled

SpecCard == InitCard /\ [][NextCard]_vars

(***************************************************************************)
(* Properties                                                              *)
(***************************************************************************)
Clamp(v, lo, hi) == IF v < lo THEN lo ELSE IF v > hi THEN hi ELSE v

\* the Threshold Policy as specified: default 0.65, then the broadness rule,
\* then the specificity rule, the last matching rule winning
BroadnessRule(q) == Len(q) < 10 \/ Len(Split(q, " ")) <= 2
SpecificityRule(q) == Len(q) > 30 \/ Includes(q, Specific) \/ Includes(q, Exact)
DeriveThreshold(q) ==
    IF SpecificityRule(q) THEN 75 ELSE IF BroadnessRule(q) THEN 50 ELSE 65

\* the integer parsed from a limit input, or 10 when none can be parsed
ParsedIntegerOrTen(limit) ==
    LET p == ParseInt(StringOf(limit))
    IN IF limit.t = "undefined" \/ p.nan THEN 10 ELSE p.v

SearchHandled == req.handler = "searchTools"
CallHandled == req.handler = "callTool"
NoToolName == CallHandled /\ req.body.toolName \in {Undefined, Str(<<>>)}
BadQuery == SearchHandled /\ (req.body.query.t # "string" \/ req.body.query.s = <<>>)
NoNumericThreshold == SearchHandled /\ req.body.threshold.t # "number"
SentOnly(code) == Len(res) = 1 /\ res[1].status = code

\* C1: a callTool request whose body has no toolName (absent or empty) is
\* answered with a validation failure (HTTP 400, success false) and the
\* dispatcher handleCallToolRequest is not invoked for it
C1_MissingToolNameRejected ==
    NoToolName =>
        /\ pc = "done"
        /\ SentOnly(400)
        /\ res[1].body.success = FALSE
        /\ dispatchCalls = <<>>

C1_Witness ==
    /\ NoToolName
    /\ req.body.toolName = Str(<<>>)
    /\ SentOnly(400)

\* C2: when the resolved adapter throws, or the tool or server cannot be
\* resolved, the response is success true (never HTTP 500) and its payload
\* carries isError true with the content [{type: "text", text: message}]
C2_FailurePayloadCarriesIsError ==
    (CallHandled /\ pc = "done" /\ outcome.kind \in {"adapterThrew", "unresolved"}) =>
        /\ SentOnly(200)
        /\ res[1].body.success = TRUE
        /\ "isError" \in DOMAIN res[1].body.data
        /\ res[1].body.data.isError = TRUE
        /\ Len(res[1].body.data.content) = 1
        /\ res[1].body.data.content[1].type = "text"

\* C3: a search request whose query is missing, empty or not a string is
\* answered with a validation failure before the smart-routing configuration
\* or the similarity index is consulted, with the gate enabled or disabled
C3_BadQueryRejectedFirst ==
    BadQuery =>
        /\ pc = "done"
        /\ SentOnly(400)
        /\ res[1].body.success = FALSE
        /\ configCalls = 0
        /\ indexCalls = <<>>

C3_Witness ==
    /\ BadQuery
    /\ req.body.query = Str(<<>>)
    /\ ~smartRoutingEnabled
    /\ SentOnly(400)
    /\ configCalls = 0

\* the status callTool answers with, from the request and the way the
\* dispatcher call settled alone
CallStatus(r, o) ==
    IF r.body.toolName \in {Undefined, Str(<<>>)} THEN 400
    ELSE IF o.kind = "threw" THEN 500
    ELSE 200

\* C4: with smart routing not enabled every search request with a valid query
\* gets the feature-disabled failure and the index is not queried, while
\* callTool never consults the gate and answers by the request and the
\* dispatcher's outcome alone, enabled or not
C4_GateGovernsSearchOnly ==
    /\ (SearchHandled /\ ~BadQuery /\ ~smartRoutingEnabled) =>
          /\ pc = "done"
          /\ SentOnly(503)
          /\ res[1].body.success = FALSE
          /\ indexCalls = <<>>
    /\ CallHandled =>
          /\ configCalls = 0
          /\ pc = "done" => SentOnly(CallStatus(req, outcome))
          /\ (pc = "done" /\ res[1].status = 200) =>
                res[1].body.data.content =
                    (IF "content" \in DOMAIN outcome.result THEN outcome.result.content
                     ELSE <<>>)
          /\ pc = "awaitDispatch" => Len(dispatchCalls) = 1 /\ res = <<>>

C4_Witness ==
    /\ SearchHandled
    /\ ~BadQuery
    /\ ~smartRoutingEnabled
    /\ SentOnly(503)

\* C5: a search request without a numeric threshold (absent, or present but
\* not a number) passes to the index the threshold the Threshold Policy
\* derives from the query
C5_DerivedWhenNotNumeric ==
    \A i \in 1..Len(indexCalls) :
        NoNumericThreshold => indexCalls[i].threshold = DeriveThreshold(indexCalls[i].query)

\* C6: a numeric threshold is passed to the index clamped to [0, 1], whatever
\* the query text is
C6_NumericThresholdClamped ==
    \A i \in 1..Len(indexCalls) :
        req.body.threshold.t = "number" =>
            indexCalls[i].threshold = Clamp(req.body.threshold.n, 0, 100)

C6_Witness ==
    /\ Len(indexCalls) = 1
    /\ req.body.threshold = Num(150)
    /\ req.body.query = Str(Exact)
    /\ indexCalls[1].threshold = 100

\* C7: without an explicit threshold, when both rules fire for the query the
\* specificity rule wins and the threshold passed to the index is 0.75
C7_SpecificityWins ==
    \A i \in 1..Len(indexCalls) :
        (NoNumericThreshold /\ BroadnessRule(indexCalls[i].query)
           /\ SpecificityRule(indexCalls[i].query)) =>
            indexCalls[i].threshold = 75

\* C8: without an explicit threshold, when the specificity rule does not fire
\* the threshold passed to the index is 0.5 for a query shorter than 10
\* characters or of at most 2 words, and 0.65 for every other query
C8_BroadnessOrDefault ==
    \A i \in 1..Len(indexCalls) :
        (NoNumericThreshold /\ ~SpecificityRule(indexCalls[i].query)) =>
            indexCalls[i].threshold = (IF BroadnessRule(indexCalls[i].query) THEN 50 ELSE 65)

\* C9: for every limit input the limit passed to the index is clamp(v, 1, 100),
\* v being the integer parsed from the input, or 10 when none can be parsed
C9_LimitClamped ==
    \A i \in 1..Len(indexCalls) :
        indexCalls[i].limit = Clamp(ParsedIntegerOrTen(req.body.limit), 1, 100)

\* C10: whenever the index is queried, the limit passed is an integer in
\* [1, 100] and the threshold passed is in [0, 1]
C10_EffectiveRanges ==
    \A i \in 1..Len(indexCalls) :
        /\ indexCalls[i].limit \in 1..100
        /\ indexCalls[i].threshold \in 0..100

C10_Witness ==
    /\ Len(indexCalls) = 1
    /\ req.body.limit = Num(25000)
    /\ req.body.threshold = Num(150)
    /\ indexCalls[1].limit = 100
    /\ indexCalls[1].threshold = 100

(***************************************************************************)
(* Ranking and grouping of a successful search                             *)
(***************************************************************************)
\* the search got its candidates from the index and answered with them
SearchAnswered == SearchHandled /\ pc = "done" /\ outcome.kind = "returned"
Candidates == outcome.result
FlatTools == res[1].body.data.tools
Groups == res[1].body.data.servers

Occurrences(s, x) == Cardinality({i \in 1..Len(s) : s[i] = x})
IsPermutation(s, t) ==
    /\ Len(s) = Len(t)
    /\ \A i \in 1..Len(s) : Occurrences(s, s[i]) = Occurrences(t, s[i])
NonIncreasing(s) == \A i \in 1..(Len(s) - 1) : s[i].similarity >= s[i + 1].similarity

\* C11: the flat tools list of a successful search holds exactly the candidates
\* the index returned, each as often as the index returned it, and is ordered
\* by similarity, highest first
C11_FlatToolsSortedPermutation ==
    SearchAnswered => IsPermutation(FlatTools, Candidates) /\ NonIncreasing(FlatTools)

\* the index returned three candidates in an order that is not the ranked one
C11_Witness ==
    /\ SearchAnswered
    /\ Len(Candidates) >= 3
    /\ ~NonIncreasing(Candidates)
    /\ FlatTools # Candidates

\* C12: within every server group of a successful search the tools are ordered
\* by similarity, highest first
C12_GroupToolsSorted ==
    SearchAnswered => \A g \in 1..Len(Groups) : NonIncreasing(Groups[g].tools)

\* a group holds two tools of different similarity
C12_Witness ==
    /\ SearchAnswered
    /\ \E g \in 1..Len(Groups) :
          /\ Len(Groups[g].tools) >= 2
          /\ Groups[g].tools[1].similarity > Groups[g].tools[2].similarity

\* C13: the server groups of a successful search are ordered by their
\* maxSimilarity, highest first
C13_GroupsSortedByMax ==
    SearchAnswered =>
        \A g \in 1..(Len(Groups) - 1) : Groups[g].maxSimilarity >= Groups[g + 1].maxSimilarity

\* three groups, the first strictly ahead of the last
C13_Witness ==
    /\ SearchAnswered
    /\ Len(Groups) >= 3
    /\ Groups[1].maxSimilarity > Groups[3].maxSimilarity

\* the earlier request was a search answered from the same candidate sequence
SameCandidatesEarlier ==
    /\ earlier.req.handler = "searchTools"
    /\ earlier.outcome.kind = "returned"
    /\ earlier.outcome.result = Candidates

SimilaritiesOf(ts) == {ts[i].similarity : i \in 1..Len(ts)}
Highest(ts) == CHOOSE m \in SimilaritiesOf(ts) : \A x \in SimilaritiesOf(ts) : x <= m
Lowest(ts) == CHOOSE m \in SimilaritiesOf(ts) : \A x \in SimilaritiesOf(ts) : m <= x
RECURSIVE ExactSum(_)
ExactSum(ts) == IF ts = <<>> THEN 0 ELSE Head(ts).similarity + ExactSum(Tail(ts))
Abs(x) == IF x < 0 THEN 0 - x ELSE x

\* avgSimilarity (the quotient num / den) lies between the lowest and the
\* highest similarity of the tools ts
AvgWithinGroup(avg, ts) ==
    Lowest(ts) * avg.den <= avg.num /\ avg.num <= Highest(ts) * avg.den

\* the statement of C14 as the specification words it: maxSimilarity is the
\* maximum, avgSimilarity is exactly sum / count and so lies between the
\* lowest and the highest similarity of the group
C14_AsStated ==
    SearchAnswered =>
        \A g \in 1..Len(Groups) :
            LET ts == Groups[g].tools
                avg == Groups[g].avgSimilarity
            IN /\ Groups[g].maxSimilarity = Highest(ts)
               /\ avg.num * Len(ts) = ExactSum(ts) * avg.den
               /\ AvgWithinGroup(avg, ts)

\* C14: for every server group, maxSimilarity is the maximum similarity of its
\* tools; avgSimilarity is sum / count computed in floating point: it differs
\* from the exact mean by a relative error of at most count * 2^(1 - p) for a
\* significand of p bits, it is the tool's similarity in a group of one tool,
\* and min <= avgSimilarity <= maxSimilarity is certain only for groups of at
\* most two tools
C14_MaxExactAvgRounded ==
    SearchAnswered =>
        \A g \in 1..Len(Groups) :
            LET ts == Groups[g].tools
                n == Len(ts)
                avg == Groups[g].avgSimilarity
            IN /\ Groups[g].maxSimilarity = Highest(ts)
               /\ avg.den > 0
               /\ Abs(avg.num * n - ExactSum(ts) * avg.den) * Pow2(SignificandBits - 1)
                      <= n * ExactSum(ts) * avg.den
               /\ n = 1 => avg.num = ts[1].similarity * avg.den
               /\ n <= 2 => AvgWithinGroup(avg, ts)

\* a group of three tools whose avgSimilarity the rounding has put outside the
\* range of its tools' similarities
C14_Witness ==
    /\ SearchAnswered
    /\ \E g \in 1..Len(Groups) :
          /\ Len(Groups[g].tools) = 3
          /\ ~AvgWithinGroup(Groups[g].avgSimilarity, Groups[g].tools)

\* the places of the groups where the flat result r is listed
PlacesOf(r) ==
    {<<g, j>> \in (1..Len(Groups)) \X (1..Len(FlatTools)) :
        /\ j <= Len(Groups[g].tools)
        /\ Groups[g].tools[j] = [name |-> r.toolName, description |-> r.description,
                                 inputSchema |-> r.inputSchema, similarity |-> r.similarity,
                                 serverName |-> r.serverName]}

RECURSIVE TotalGrouped(_)
TotalGrouped(gs) == IF gs = <<>> THEN 0 ELSE Len(Head(gs).tools) + TotalGrouped(Tail(gs))

\* C15: grouping is lossless: the lengths of the groups' tools lists add up to
\* the length of the flat tools list, and every flat result is listed in
\* exactly one place of exactly one group, that of its own server
C15_GroupingLossless ==
    SearchAnswered =>
        /\ TotalGrouped(Groups) = Len(FlatTools)
        /\ \A i \in 1..Len(FlatTools) :
              /\ Cardinality(PlacesOf(FlatTools[i])) = 1
              /\ \A p \in PlacesOf(FlatTools[i]) :
                    Groups[p[1]].serverName = FlatTools[i].serverName

\* three results shared by two servers
C15_Witness ==
    /\ SearchAnswered
    /\ Len(FlatTools) = 3
    /\ Len(Groups) = 2

(***************************************************************************)
(* Metadata of a successful search                                         *)
(***************************************************************************)
Metadata == res[1].body.data.metadata

\* C17: the metadata of every successful search has the request's query, the
\* effective threshold that was passed to the index, totalResults equal to the
\* length of tools, serverCount equal to the number of groups, and the refine
\* texts for guideline and nextSteps exactly when totalResults > 0, the
\* broaden texts exactly when totalResults = 0
C17_MetadataConsistent ==
    SearchAnswered =>
        /\ SentOnly(200)
        /\ res[1].body.success = TRUE
        /\ Metadata.query = req.body.query.s
        /\ Metadata.threshold = indexCalls[1].threshold
        /\ Metadata.totalResults = Len(FlatTools)
        /\ Metadata.serverCount = Len(Groups)
        /\ (Metadata.totalResults > 0) <=>
              (Metadata.guideline = GuidelineFound /\ Metadata.nextSteps = NextStepsFound)
        /\ (Metadata.totalResults = 0) <=>
              (Metadata.guideline = GuidelineNone /\ Metadata.nextSteps = NextStepsNone)

\* a search with a derived threshold that found three tools of two servers
C17_Witness ==
    /\ SearchAnswered
    /\ NoNumericThreshold
    /\ Metadata.totalResults = 3
    /\ Metadata.serverCount = 2

\* a search that found nothing
C17_WitnessEmpty ==
    /\ SearchAnswered
    /\ Metadata.totalResults = 0
    /\ Metadata.guideline = GuidelineNone

(***************************************************************************)
(* callTool: the response and the call of the dispatcher                   *)
(***************************************************************************)
\* the dispatcher returned a result for the call
CallAnswered ==
    CallHandled /\ pc = "done" /\ outcome.kind \in {"returned", "adapterThrew", "unresolved"}
DispatchResult == outcome.result
ResultFlagsError == "isError" \in DOMAIN DispatchResult /\ DispatchResult.isError

\* C18: whenever the dispatcher returns a result, callTool answers HTTP 200
\* with success true, data.content the result's content sequence unchanged
\* (the empty sequence when the result has none), and toolName and arguments
\* as received, an absent arguments being the empty object; a result with
\* isError true is answered so too
C18_ResultPassedThrough ==
    CallAnswered =>
        /\ SentOnly(200)
        /\ res[1].body.success = TRUE
        /\ "content" \in DOMAIN DispatchResult =>
              res[1].body.data.content = DispatchResult.content
        /\ "content" \notin DOMAIN DispatchResult => res[1].body.data.content = <<>>
        /\ res[1].body.data.toolName = req.body.toolName
        /\ req.body.arguments # Undefined => res[1].body.data.arguments = req.body.arguments
        /\ req.body.arguments = Undefined => res[1].body.data.arguments = Obj(<<>>)

\* the tool itself returned content flagged isError, for a call without
\* arguments
C18_Witness ==
    /\ CallAnswered
    /\ outcome.kind = "returned"
    /\ ResultFlagsError
    /\ Len(DispatchResult.content) >= 1
    /\ req.body.arguments = Undefined

\* the tool returned a result without content
C18_WitnessNoContent ==
    /\ CallAnswered
    /\ "content" \notin DOMAIN DispatchResult
    /\ res[1].body.data.content = <<>>

\* callTool was asked for a tool by name
ToolNamed == CallHandled /\ ~NoToolName
DispatchCall == dispatchCalls[1]

\* the dispatcher is invoked once, with the envelope {toolName, arguments} and
\* the path segment as server hint
EnvelopeAndHint ==
    /\ Len(dispatchCalls) = 1
    /\ DispatchCall.request.params.name = "call_tool"
    /\ DispatchCall.request.params.arguments =
          [toolName |-> req.body.toolName,
           arguments |-> IF req.body.arguments = Undefined THEN Obj(<<>>)
                         ELSE req.body.arguments]
    /\ DispatchCall.extra.server = req.params.server

\* the statement of C19 as the specification words it: the sessionId is the
\* x-session-id header whenever the header is present
C19_AsStated ==
    ToolNamed =>
        /\ EnvelopeAndHint
        /\ DispatchCall.extra.sessionId =
              IF req.headers.sessionId # Undefined THEN req.headers.sessionId
              ELSE DefaultSession

\* C19: for every callTool request with a toolName the dispatcher is invoked
\* with the envelope {toolName, arguments}, with the path segment naming the
\* server as hint (undefined without one), and with the x-session-id header as
\* sessionId when the header is present and not empty, 'api-session' when it
\* is absent or empty
C19_DispatcherCallContext ==
    ToolNamed =>
        /\ EnvelopeAndHint
        /\ DispatchCall.extra.sessionId =
              IF req.headers.sessionId \notin {Undefined, Str(<<>>)} THEN req.headers.sessionId
              ELSE DefaultSession

\* a call that names its server in the path and sends an empty x-session-id
C19_Witness ==
    /\ ToolNamed
    /\ req.headers.sessionId = Str(<<>>)
    /\ req.params.server # Undefined
    /\ DispatchCall.extra.sessionId = DefaultSession

\* a call that sends a session id and names no server
C19_WitnessHeader ==
    /\ ToolNamed
    /\ req.headers.sessionId = Str(<<"s", "1">>)
    /\ DispatchCall.extra.sessionId = Str(<<"s", "1">>)
    /\ DispatchCall.extra.server = Undefined

(***************************************************************************)
(* Faults of the collaborators                                             *)
(***************************************************************************)
\* the awaited call of the index or of the dispatcher threw
Faulted == outcome.kind = "threw"

\* C20: a fault thrown by the index in searchTools or by the dispatcher in
\* callTool is caught by the handler: the handler ends, having answered once,
\* with HTTP 500, success false, the handler's failure message and the text of
\* the fault (the Error's message, 'Unknown error occurred' for a thrown value
\* that is no Error); nothing escapes as an unhandled rejection
C20_FaultsReportedAs500 ==
    Faulted =>
        /\ pc = "done"
        /\ SentOnly(500)
        /\ res[1].body.success = FALSE
        /\ SearchHandled => res[1].body.message = "Failed to search tools"
        /\ CallHandled => res[1].body.message = "Failed to call tool"
        /\ outcome.error.isError => res[1].body.error = outcome.error.message
        /\ ~outcome.error.isError => res[1].body.error = "Unknown error occurred"

\* the index threw an Error during a search
C20_Witness ==
    /\ Faulted
    /\ SearchHandled
    /\ outcome.error.isError
    /\ res[1].status = 500

\* the dispatcher threw a value that is no Error
C20_WitnessDispatcher ==
    /\ Faulted
    /\ CallHandled
    /\ ~outcome.error.isError
    /\ res[1].body.error = "Unknown error occurred"

(***************************************************************************)
(* Calls of the collaborators and responses per request                    *)
(***************************************************************************)
\* C21: no automatic retries: while one request is handled the index is
\* queried at most once and the dispatcher is invoked at most once, also after
\* the call has thrown
C21_NoRetries ==
    /\ Len(indexCalls) <= 1
    /\ Len(dispatchCalls) <= 1
    /\ Faulted => Len(indexCalls) + Len(dispatchCalls) = 1

\* the dispatcher threw and the request ended after that one call
C21_Witness ==
    /\ Faulted
    /\ CallHandled
    /\ pc = "done"
    /\ Len(dispatchCalls) = 1

\* the server names of the flat results
ResultServers == {FlatTools[i].serverName : i \in 1..Len(FlatTools)}

\* the flat results of the server name, in the order of the flat list
FlatOfServer(name) ==
    LET OfServer(r) == r.serverName = name
    IN SelectSeq(FlatTools, OfServer)

\* C24: the groups of a successful search are keyed by serverName: group
\* serverNames are pairwise distinct, every group holds at least one tool,
\* every tool of a group has the group's serverName, serverCount is the
\* number of distinct serverNames among the results, and the tools of a group
\* stand in the order they have in the flat sorted list, so that the first
\* group's first tool is the first tool of the flat list
C24_GroupsKeyedByServer ==
    SearchAnswered =>
        /\ \A g, h \in 1..Len(Groups) : g # h => Groups[g].serverName # Groups[h].serverName
        /\ \A g \in 1..Len(Groups) :
              LET ts == Groups[g].tools
                  flat == FlatOfServer(Groups[g].serverName)
              IN /\ Len(ts) >= 1
                 /\ \A j \in 1..Len(ts) : ts[j].serverName = Groups[g].serverName
                 /\ Len(ts) = Len(flat)
                 /\ \A j \in 1..Len(ts) :
                       /\ ts[j].name = flat[j].toolName
                       /\ ts[j].similarity = flat[j].similarity
        /\ Metadata.serverCount = Cardinality(ResultServers)
        /\ Len(FlatTools) > 0 =>
              /\ Groups[1].tools[1].name = FlatTools[1].toolName
              /\ Groups[1].tools[1].serverName = FlatTools[1].serverName

\* three results of one similarity, the first and the last of one server, the
\* second of another
C24_Witness ==
    /\ SearchAnswered
    /\ Len(FlatTools) = 3
    /\ FlatTools[1].serverName = FlatTools[3].serverName
    /\ FlatTools[1].serverName # FlatTools[2].serverName
    /\ FlatTools[1].similarity = FlatTools[3].similarity
    /\ Len(Groups) = 2

\* the awaited call of the collaborator has returned or thrown
Settled == outcome.kind \in {"returned", "adapterThrew", "unresolved", "threw"}

\* C25: on every path of searchTools and of callTool exactly one response is
\* sent: never two, none before the handler has ended, and one once it has
\* ended, be it by a validation failure, by the closed gate, or after the call
\* of the collaborator has returned or thrown
C25_ExactlyOneResponse ==
    /\ Len(res) <= 1
    /\ pc = "done" <=> Len(res) = 1
    /\ Settled => Len(res) = 1

\* a search turned away by the closed gate has its one response
C25_Witness ==
    /\ SearchHandled
    /\ pc = "done"
    /\ SentOnly(503)
    /\ outcome = NoOutcome

\* a call whose dispatcher returned has its one response
C25_WitnessAnswered ==
    /\ CallAnswered
    /\ Len(res) = 1

(***************************************************************************)
(* Calls that block                                                        *)
(***************************************************************************)
Hung == CallHandled /\ outcome.kind = "hangs"

\* C22: every invocation request is answered in the end: when the call of the
\* backend adapter blocks forever, a deadline aborts it and the request gets
\* its response, a failure
C22_HungCallAnswered == Hung ~> (pc = "done" /\ Len(res) = 1)

(***************************************************************************)
(* Requests in flight at the same time                                     *)
(***************************************************************************)
\* the request that the handler is running, and both requests
Running == Context(pc, req, configCalls, indexCalls, dispatchCalls, outcome, res)
BothContexts == {Running, Other}

\* the response a request gets when no other request is in flight: a function
\* of the request, of the gate and of what its own collaborator call gave
AloneResponse(c) ==
    IF c.req.handler = "searchTools"
    THEN LET query == c.req.body.query
             threshold == WithDefault(c.req.body.threshold, DefaultThreshold)
         IN IF InvalidQuery(query)
            THEN [status |-> 400,
                  body |-> [success |-> FALSE,
                            message |-> "Query parameter is required and must be a string"]]
            ELSE IF ~smartRoutingEnabled
            THEN [status |-> 503,
                  body |-> [success |-> FALSE,
                            message |-> "Smart routing is not enabled. Please enable it in settings."]]
            ELSE IF c.outcome.kind = "returned"
            THEN [status |-> 200,
                  body |-> SearchResponse(query.s, ThresholdNum(query.s, threshold),
                                          c.outcome.result)]
            ELSE [status |-> 500,
                  body |-> [success |-> FALSE, message |-> "Failed to search tools",
                            error |-> ErrorText(c.outcome.error)]]
    ELSE IF MissingToolName(c.req.body.toolName)
    THEN [status |-> 400, body |-> [success |-> FALSE, message |-> "toolName is required"]]
    ELSE IF c.outcome.kind = "threw"
    THEN [status |-> 500,
          body |-> [success |-> FALSE, message |-> "Failed to call tool",
                    error |-> ErrorText(c.outcome.error)]]
    ELSE [status |-> 200,
          body |-> CallToolResponse(c.outcome.result, c.req.body.toolName,
                                    WithDefault(c.req.body.arguments, Obj(<<>>)))]

\* C23: requests in flight at the same time do not interfere: however the
\* steps of two search or invocation requests interleave, each request that
\* has ended got the one response it gets when it runs alone, and a request
\* still waiting for its collaborator has got none
C23_NoInterference ==
    \A c \in BothContexts :
        /\ c.pc = "done" => c.res = <<AloneResponse(c)>>
        /\ c.pc # "done" => c.res = <<>>

\* two searches with different queries were waiting for the index at the same
\* time, and the one that had started first has been answered
C23_Witness ==
    /\ pc = "done"
    /\ SearchHandled
    /\ outcome.kind = "returned"
    /\ Other.pc = "awaitIndex"
    /\ Other.req.body.query # req.body.query
    /\ Other.indexCalls # indexCalls

\* a call was answered while a search was waiting for the index
C23_WitnessMixed ==
    /\ CallAnswered
    /\ Other.pc = "awaitIndex"

(***************************************************************************)
(* Frontend: the servers shown for a search response                       *)
(***************************************************************************)
LookedUp == lookup.called
GroupsGiven == lookup.searchData.servers.t = "array"
ServerNamesKnown == {lookup.allServers[i].name : i \in 1..Len(lookup.allServers)}

\* the groups of the response whose server the page knows, in their order
KnownGroups ==
    LET Known(g) == g.serverName \in ServerNamesKnown
    IN SelectSeq(lookup.searchData.servers.items, Known)

\* C26: with a servers array in the response, getServersFromSearchResponse
\* returns the entries of allServers that the groups name, in the order of the
\* groups, leaving out every group whose server is not in allServers, and the
\* empty list for an empty servers array; only without a servers array does it
\* return what getServersFromSearchResults gives for the tools
C26_ServersOfResponse ==
    LookedUp =>
        /\ GroupsGiven =>
              /\ Len(lookup.result) = Len(KnownGroups)
              /\ \A i \in 1..Len(lookup.result) :
                    /\ lookup.result[i].name = KnownGroups[i].serverName
                    /\ \E k \in 1..Len(lookup.allServers) :
                          lookup.allServers[k] = lookup.result[i]
              /\ lookup.searchData.servers.items = <<>> => lookup.result = <<>>
        /\ ~GroupsGiven =>
              lookup.result =
                  GetServersFromSearchResults(
                      IF lookup.searchData.tools.t = "array"
                      THEN lookup.searchData.tools.items ELSE <<>>,
                      lookup.allServers)

\* an empty servers array next to tools that the fallback would match
C26_Witness ==
    /\ LookedUp
    /\ GroupsGiven
    /\ lookup.searchData.servers.items = <<>>
    /\ lookup.searchData.tools.t = "array"
    /\ GetServersFromSearchResults(lookup.searchData.tools.items, lookup.allServers) # <<>>
    /\ lookup.result = <<>>

\* two groups, the first of a server the page does not know
C26_WitnessDropped ==
    /\ LookedUp
    /\ GroupsGiven
    /\ Len(lookup.searchData.servers.items) = 2
    /\ Len(lookup.result) = 1

\* no servers array: the tools decide
C26_WitnessFallback ==
    /\ LookedUp
    /\ ~GroupsGiven
    /\ Len(lookup.result) >= 1

(***************************************************************************)
(* Frontend: the result of the search service                              *)
(***************************************************************************)
ServiceReturned == service.pc = "returned"
GotOkResponse == ~service.fetch.rejected /\ Ok(service.fetch.status)
BodySaysSuccess ==
    /\ service.fetch.body.json
    /\ service.fetch.body.value # Null
    /\ service.fetch.body.value.success
FailureWithMessage ==
    /\ service.result.success = FALSE
    /\ service.result.error # ""

\* C27: the frontend searchTools never rejects: a network error, a response
\* whose status is not ok (the backend's 400, 503 and 500 among them) and a
\* body with success false each give {success: false, error: a message}, and
\* {success: true, data} is returned only for an ok status with a body that
\* has success true, data being the body's data
C27_ServiceNeverRejects ==
    /\ service.pc \in {"idle", "fetching", "parsing", "returned"}
    /\ ServiceReturned =>
          /\ service.fetch.rejected => FailureWithMessage
          /\ (~service.fetch.rejected /\ ~Ok(service.fetch.status)) =>
                /\ FailureWithMessage
                /\ service.result.error = HttpErrorText(service.fetch)
          /\ (GotOkResponse /\ ~BodySaysSuccess) => FailureWithMessage
          /\ service.result.success <=> (GotOkResponse /\ BodySaysSuccess)
          /\ service.result.success => service.result.data = service.fetch.body.value.data

\* the backend answered 503 and the service returned a failure
C27_Witness ==
    /\ ServiceReturned
    /\ ~service.fetch.rejected
    /\ service.fetch.status = 503
    /\ service.result.success = FALSE

\* an ok response whose body has success false and no message
C27_WitnessBody ==
    /\ ServiceReturned
    /\ GotOkResponse
    /\ service.fetch.body.json
    /\ service.fetch.body.value # Null
    /\ ~service.fetch.body.value.success
    /\ service.result = [success |-> FALSE, error |-> DefaultSearchError]

\* an ok response with success true
C27_WitnessSuccess ==
    /\ ServiceReturned
    /\ service.result.success
    /\ service.result.data = Obj(<<"tools">>)

(***************************************************************************)
(* Frontend: the search state of the servers page                          *)
(***************************************************************************)
NoSearchInFlight == page.inFlight = {}

\* C28: once no search request is in flight, the results on display are those
\* of the query submitted last, in whatever order overlapping requests have
\* completed; and after handleClearSearch, with no new search submitted,
\* hasSearched stays false and all servers stay on display
C28_LatestQueryShown ==
    /\ (NoSearchInFlight /\ page.latest # <<>> /\ page.searchResults # Null) =>
          page.searchResults.query = page.latest
    /\ page.latest = <<>> =>
          /\ ~page.hasSearched
          /\ FilteredServers = PageServers

\* C29: isSearching is true whenever a search request started by handleSearch
\* has not completed yet, and false once every started request has
\* completed; a blank query starts no request
C29_IsSearchingWhileInFlight ==
    /\ page.isSearching <=> ~NoSearchInFlight
    /\ \A request \in page.inFlight : Trim(request.query) # <<>>

(***************************************************************************)
(* Frontend: the toggle button of a server card                            *)
(***************************************************************************)
\* C30: at most one onToggle call is in flight per card at any time (a click
\* while isToggling is true starts no call), and isToggling is false as soon
\* as that call has settled, by resolving or by rejecting
C30_OneToggleInFlight ==
    /\ card.inFlight \in {0, 1}
    /\ card.isToggling <=> card.inFlight = 1
    /\ Len(card.calls) = Len(card.settled) + card.inFlight

\* a click arrived while the call was in flight and started no call
C30_Witness ==
    /\ card.isToggling
    /\ card.clicks = 2
    /\ Len(card.calls) = 1

\* the call was rejected and the button works again
C30_WitnessRejected ==
    /\ card.settled = <<"rejected">>
    /\ ~card.isToggling
    /\ card.clicks = 1

\* a second call after the first has resolved
C30_WitnessAgain ==
    /\ Len(card.settled) = 1
    /\ Len(card.calls) = 2
    /\ card.isToggling
====
